---------------------------- MODULE Spec2Model ----------------------------
(***************************************************************************)
(* Model of COACH_TRACKER.py, a Streamlit script over a SQLite database.   *)
(*                                                                         *)
(* Streamlit re-executes the whole script on every interaction, so every   *)
(* action below is one complete run of the script: the schema statements   *)
(* at the top, the handler of the one button that was pressed (if any),    *)
(* and the queries the tabs run unconditionally (the coach_list of the     *)
(* Update Movement tab and the report of the Reports tab).  The read-only  *)
(* KPI queries and charts of the Dashboard tab and the export buttons      *)
(* write nothing and are not modelled.                                     *)
(***************************************************************************)
EXTENDS Integers, Sequences, FiniteSets, TLC

VARIABLES
    db,                 \* coaches.db: table name -> [columns, rows]
    clock,              \* last wall-clock reading, in ticks
    msg,                \* st.success / st.warning shown by the handler
    coach_list,         \* options of the "Select Coach" selectbox
    details,            \* rows shown by "Get Details"
    start_date,         \* Reports widgets
    end_date,
    coach_type_filter,
    report              \* rows shown by the Reports tab

vars == <<db, clock, msg, coach_list, details,
          start_date, end_date, coach_type_filter, report>>

-----------------------------------------------------------------------------
(* Bounds *)

\* rows in both tables together, in Spec and SpecClock
MaxRows == 3
\* coach rows in SpecReports
MaxReportRows == 2
\* last clock reading, and the resolution of the clock
MaxClock == 3
TicksPerSecond == 2

-----------------------------------------------------------------------------
(* Generic helpers *)

Range(s) == {s[i] : i \in 1..Len(s)}

Min(a, b) == IF a <= b THEN a ELSE b

-----------------------------------------------------------------------------
(* Dates and their text form.  Characters are their ASCII codes.           *)

Date(y, m, d) == [year |-> y, month |-> m, day |-> d]

\* chronological order on dates (datetime.date comparison)
DateLE(a, b) ==
    \/ a.year < b.year
    \/ a.year = b.year /\ a.month < b.month
    \/ a.year = b.year /\ a.month = b.month /\ a.day <= b.day

RECURSIVE Digits(_, _)
\* n written in decimal, zero-padded to the given width
Digits(n, width) ==
    IF width = 0 THEN <<>>
    ELSE Append(Digits(n \div 10, width - 1), 48 + (n % 10))

RECURSIVE Decimal(_)
\* n written in decimal without padding
Decimal(n) == IF n < 10 THEN <<48 + n>> ELSE Append(Decimal(n \div 10), 48 + (n % 10))

MutPad2(n) == Decimal(n)

\* the %02d of date.isoformat()
Pad2(n) == Digits(n, 2)

\* str(date): "YYYY-MM-DD"
Str(d) == Digits(d.year, 4) \o <<45>> \o Pad2(d.month) \o <<45>> \o Pad2(d.day)

RECURSIVE TextLE(_, _)
\* SQLite BINARY collation on TEXT: bytewise, a proper prefix sorts first
TextLE(a, b) ==
    IF a = <<>> THEN TRUE
    ELSE IF b = <<>> THEN FALSE
    ELSE IF Head(a) < Head(b) THEN TRUE
    ELSE IF Head(a) > Head(b) THEN FALSE
    ELSE TextLE(Tail(a), Tail(b))

\* x BETWEEN lo AND hi
Between(x, lo, hi) == TextLE(lo, x) /\ TextLE(x, hi)

\* strftime("%Y-%m-%d %H:%M:%S") drops the sub-second part of the reading;
\* the text is represented by the whole second it denotes
Strftime(t) == t \div TicksPerSecond

-----------------------------------------------------------------------------
(* Input sets *)

CoachTypes == {"AC", "Sleeper", "General"}
FilterTypes == {"All"} \cup CoachTypes

Today == Date(2025, 10, 1)
ReportStartDefault == Date(2025, 1, 1)

CoachNoInputs == {"", "C100", "C200"}
ShopInputs == {"", "Shop A", "Shop B"}
WorkInputs == {"Wheel check"}
\* the first option of the Type selectbox is its default
DefaultType == "AC"
ReportTypes == {"AC", "Sleeper"}

ReportDates == {Date(2025, 1, 1), Date(2025, 9, 30), Date(2025, 10, 1)}

-----------------------------------------------------------------------------
(* Storage *)

CoachColumns == <<"id", "coach_no", "coach_type", "date_in", "current_shop">>
MovementColumns == <<"id", "coach_no", "shop_in", "shop_out", "work_done", "time_in", "time_out">>

MutCreateTableIfNotExists(d, name, columns) ==
    (name :> [columns |-> columns, rows |-> <<>>]) @@ d

\* CREATE TABLE IF NOT EXISTS name (columns)
CreateTableIfNotExists(d, name, columns) ==
    IF name \in DOMAIN d THEN d
    ELSE (name :> [columns |-> columns, rows |-> <<>>]) @@ d

\* the two CREATE statements and the commit at the top of the script
EnsureSchema(d) ==
    CreateTableIfNotExists(
        CreateTableIfNotExists(d, "coaches", CoachColumns),
        "movements", MovementColumns)

Rows(d, name) == IF name \in DOMAIN d THEN d[name].rows ELSE <<>>

coaches == Rows(db, "coaches")
movements == Rows(db, "movements")

\* INTEGER PRIMARY KEY AUTOINCREMENT; no row is ever deleted, so the next
\* id is one more than the number of rows
NextId(rows) == Len(rows) + 1

MutInsertCoach(d, coach_no, coach_type, date_in, shop) ==
    [d EXCEPT !["coaches"].rows =
        <<[id |-> 1, coach_no |-> coach_no, coach_type |-> coach_type,
           date_in |-> date_in, current_shop |-> shop]>>]

\* INSERT INTO coaches (coach_no, coach_type, date_in, current_shop)
InsertCoach(d, coach_no, coach_type, date_in, shop) ==
    [d EXCEPT !["coaches"].rows = Append(@,
        [id |-> NextId(@), coach_no |-> coach_no, coach_type |-> coach_type,
         date_in |-> date_in, current_shop |-> shop])]

MutSwapShops(d, coach_no, shop_in, shop_out, work_done, time_in, time_out) ==
    [d EXCEPT !["movements"].rows = Append(@,
        [id |-> Len(@) + 1, coach_no |-> coach_no, shop_in |-> shop_out,
         shop_out |-> shop_in, work_done |-> work_done,
         time_in |-> time_in, time_out |-> time_out])]

MutInsertMovement(d, coach_no, shop_in, shop_out, work_done, time_in, time_out) ==
    [d EXCEPT !["movements"].rows =
        <<[id |-> 1, coach_no |-> coach_no, shop_in |-> shop_in,
           shop_out |-> shop_out, work_done |-> work_done,
           time_in |-> time_in, time_out |-> time_out]>>]

\* INSERT INTO movements (coach_no, shop_in, shop_out, work_done, time_in, time_out)
InsertMovement(d, coach_no, shop_in, shop_out, work_done, time_in, time_out) ==
    [d EXCEPT !["movements"].rows = Append(@,
        [id |-> NextId(@), coach_no |-> coach_no, shop_in |-> shop_in,
         shop_out |-> shop_out, work_done |-> work_done,
         time_in |-> time_in, time_out |-> time_out])]

MutSkipUpdate(d, shop_in, coach_no) == d

MutUpdateCurrentShop(d, shop_in, coach_no) ==
    [d EXCEPT !["coaches"].rows =
        [i \in DOMAIN @ |-> [@[i] EXCEPT !.current_shop = shop_in]]]

\* UPDATE coaches SET current_shop=? WHERE coach_no=?
UpdateCurrentShop(d, shop_in, coach_no) ==
    [d EXCEPT !["coaches"].rows =
        [i \in DOMAIN @ |->
            IF @[i].coach_no = coach_no
            THEN [@[i] EXCEPT !.current_shop = shop_in]
            ELSE @[i]]]

-----------------------------------------------------------------------------
(* Queries *)

\* SELECT coach_no FROM coaches
CoachList(d) == [i \in DOMAIN Rows(d, "coaches") |-> Rows(d, "coaches")[i].coach_no]

\* SELECT * FROM movements WHERE coach_no=?
GetMovementsFor(d, coach_no) ==
    LET Match(r) == r.coach_no = coach_no IN SelectSeq(Rows(d, "movements"), Match)

\* SELECT * FROM coaches WHERE date_in BETWEEN ? AND ? [AND coach_type=?]
FilterCoaches(d, start, end, type) ==
    LET Match(r) == /\ Between(r.date_in, Str(start), Str(end))
                    /\ (type # "All" => r.coach_type = type)
    IN SelectSeq(Rows(d, "coaches"), Match)

-----------------------------------------------------------------------------
(* Validation: truthiness of the text inputs *)

MutAddCoachValid(coach_no, shop) == coach_no # "" \/ shop # ""

\* if coach_no and shop
AddCoachValid(coach_no, shop) == coach_no # "" /\ shop # ""

\* if shop_in and shop_out
MovementValid(shop_in, shop_out) == shop_in # "" /\ shop_out # ""

-----------------------------------------------------------------------------
(* Script runs *)

NoMsg == [kind |-> "none", text |-> "", coach_no |-> ""]
Success(text, coach_no) == [kind |-> "success", text |-> text, coach_no |-> coach_no]
Warning(text) == [kind |-> "warning", text |-> text, coach_no |-> ""]

Init ==
    /\ db = <<>>
    /\ clock = 0
    /\ msg = NoMsg
    /\ coach_list = <<>>
    /\ details = <<>>
    /\ start_date = ReportStartDefault
    /\ end_date = Today
    /\ coach_type_filter = "All"
    /\ report = <<>>

\* "Add Coach" pressed
AddCoach(coach_no, coach_type, date_in, shop) ==
    LET d0 == EnsureSchema(db)
        ok == AddCoachValid(coach_no, shop)
        d1 == IF ok THEN InsertCoach(d0, coach_no, coach_type, Str(date_in), shop) ELSE d0
    IN /\ msg' = IF ok THEN Success("Coach added!", coach_no)
                 ELSE Warning("Please fill in all details.")
       /\ details' = <<>>
       /\ db' = d1
       /\ coach_list' = CoachList(d1)
       /\ report' = FilterCoaches(d1, start_date, end_date, coach_type_filter)
       /\ UNCHANGED <<clock, start_date, end_date, coach_type_filter>>

\* "Update Movement" pressed; now1 and now2 are the two datetime.now() readings
UpdateMovement(coach_no, shop_out, shop_in, work_done, now1, now2) ==
    LET d0 == EnsureSchema(db)
        ok == MovementValid(shop_in, shop_out)
        d1 == IF ok
              THEN UpdateCurrentShop(
                       InsertMovement(d0, coach_no, shop_in, shop_out, work_done,
                                      Strftime(now1), Strftime(now2)),
                       shop_in, coach_no)
              ELSE d0
    IN /\ msg' = IF ok THEN Success("Movement updated for Coach", coach_no)
                 ELSE Warning("Please fill in both shop fields.")
       /\ details' = <<>>
       /\ clock <= now1 /\ now1 <= now2
       /\ clock' = IF ok THEN now2 ELSE clock
       /\ CoachList(d0) # <<>>
       /\ coach_no \in Range(CoachList(d0))
       /\ db' = d1
       /\ coach_list' = CoachList(d1)
       /\ report' = FilterCoaches(d1, start_date, end_date, coach_type_filter)
       /\ UNCHANGED <<start_date, end_date, coach_type_filter>>

\* "Get Details" pressed
GetDetails(coach_no) ==
    LET d0 == EnsureSchema(db)
        data == GetMovementsFor(d0, coach_no)
    IN /\ msg' = IF data # <<>> THEN NoMsg ELSE Warning("No movement found for this coach!")
       /\ details' = data
       /\ db' = d0
       /\ coach_list' = CoachList(d0)
       /\ report' = FilterCoaches(d0, start_date, end_date, coach_type_filter)
       /\ UNCHANGED <<clock, start_date, end_date, coach_type_filter>>

\* a Reports widget changed: a run with no button pressed
SetFilters(start, end, type) ==
    LET d0 == EnsureSchema(db)
    IN /\ <<start, end, type>> # <<start_date, end_date, coach_type_filter>>
       /\ start_date' = start
       /\ end_date' = end
       /\ coach_type_filter' = type
       /\ db' = d0
       /\ msg' = NoMsg
       /\ details' = <<>>
       /\ coach_list' = CoachList(d0)
       /\ report' = FilterCoaches(d0, start, end, type)
       /\ UNCHANGED clock

-----------------------------------------------------------------------------
(* Specifications *)

RowCount == Len(coaches) + Len(movements)
Readings == 0..MaxClock

\* Spec: the three buttons over both tables.  The payload that the claims
\* checked here do not depend on is kept narrow: Type and Date In stay at
\* their defaults, both clock readings return the last reading, and the
\* Reports widgets keep their defaults.
Next ==
    \/ \E coach_no \in CoachNoInputs, shop \in ShopInputs :
          /\ AddCoachValid(coach_no, shop) => RowCount < MaxRows
          /\ AddCoach(coach_no, DefaultType, Today, shop)
    \/ \E coach_no \in CoachNoInputs, shop_out \in ShopInputs, shop_in \in ShopInputs,
          work_done \in WorkInputs :
          /\ MovementValid(shop_in, shop_out) => RowCount < MaxRows
          /\ UpdateMovement(coach_no, shop_out, shop_in, work_done, clock, clock)
    \/ \E coach_no \in CoachNoInputs : GetDetails(coach_no)

Spec == Init /\ [][Next]_vars

\* SpecReports: coaches of every type and date, and the Reports widgets
NextReports ==
    \/ \E coach_type \in ReportTypes, date_in \in ReportDates :
          /\ Len(coaches) < MaxReportRows
          /\ AddCoach("C100", coach_type, date_in, "Shop A")
    \/ \E start \in ReportDates, end \in ReportDates, type \in FilterTypes :
          SetFilters(start, end, type)

SpecReports == Init /\ [][NextReports]_vars

\* SpecClock: the clock advances between and inside the runs
NextClock ==
    \/ \E shop \in ShopInputs :
          /\ AddCoachValid("C100", shop) => RowCount < MaxRows
          /\ AddCoach("C100", DefaultType, Today, shop)
    \/ \E shop_out \in ShopInputs, shop_in \in ShopInputs, now1 \in Readings :
          \E now2 \in now1..Min(now1 + 1, MaxClock) :
             /\ MovementValid(shop_in, shop_out) => RowCount < MaxRows
             /\ UpdateMovement("C100", shop_out, shop_in, "Wheel check", now1, now2)

SpecClock == Init /\ [][NextClock]_vars

-----------------------------------------------------------------------------
(* Properties *)

Last(s) == s[Len(s)]
IsPrefix(s, t) == Len(s) <= Len(t) /\ SubSeq(t, 1, Len(s)) = s
TablesExist(d) == {"coaches", "movements"} \subseteq DOMAIN d
AllDates == ReportDates \cup {Today}

\* this step is a successful record_movement for coach_no
RecordedMovement(coach_no) ==
    \E shop_out \in ShopInputs \ {""}, shop_in \in ShopInputs \ {""},
       work_done \in WorkInputs, now1 \in Readings, now2 \in Readings :
       UpdateMovement(coach_no, shop_out, shop_in, work_done, now1, now2)

\* row i of coaches is at the shop_in of the latest movement of its coach_no
Agrees(d, i) ==
    LET row == Rows(d, "coaches")[i]
        ms == GetMovementsFor(d, row.coach_no)
    IN ms # <<>> /\ row.current_shop = Last(ms).shop_in

\* C1: a record_movement with non-empty shops for an existing coach_no leaves
\* every coach row of that coach_no at shop_in and adds exactly one row to
\* get_movements_for(coach_no), carrying the given fields.
C1_RecordMovement ==
    [][\A c \in CoachNoInputs, so \in ShopInputs \ {""}, si \in ShopInputs \ {""},
          w \in WorkInputs, t1 \in Readings, t2 \in Readings :
          (UpdateMovement(c, so, si, w, t1, t2) /\ c \in Range(CoachList(db))) =>
             /\ \A i \in 1..Len(coaches') :
                   coaches'[i].coach_no = c => coaches'[i].current_shop = si
             /\ LET before == GetMovementsFor(db, c)
                    after == GetMovementsFor(db', c)
                IN /\ Len(after) = Len(before) + 1
                   /\ SubSeq(after, 1, Len(before)) = before
                   /\ Last(after).coach_no = c
                   /\ Last(after).shop_in = si
                   /\ Last(after).shop_out = so
                   /\ Last(after).work_done = w]_vars

C1_Witness ==
    /\ msg.text = "Movement updated for Coach"
    /\ Cardinality({i \in 1..Len(coaches) : coaches[i].coach_no = msg.coach_no}) >= 2
    /\ GetMovementsFor(db, msg.coach_no) # <<>>
    /\ Last(movements).shop_in # Last(movements).shop_out

\* C2 as claimed: in every reachable state every coach row whose coach_no has
\* a movement is at the shop_in of the most recent movement of that coach_no.
C2_CurrentShopIsLatestShopIn ==
    \A i \in 1..Len(coaches) :
        GetMovementsFor(db, coaches[i].coach_no) # <<>> => Agrees(db, i)

\* C2 amended: a successful record_movement leaves every row of its coach_no
\* at the shop_in of the most recent movement, and a row that is at the
\* shop_in of the most recent movement of its coach_no remains so in every
\* later step.
C2_AgreementKept ==
    [][/\ \A i \in 1..Len(coaches) : Agrees(db, i) => Agrees(db', i)
       /\ \A c \in CoachNoInputs :
             RecordedMovement(c) =>
                \A i \in 1..Len(coaches') : coaches'[i].coach_no = c => Agrees(db', i)]_vars

C2_Witness ==
    \E i \in 1..Len(coaches) :
        LET ms == GetMovementsFor(db, coaches[i].coach_no)
        IN /\ Len(ms) >= 2
           /\ ms[1].shop_in # ms[2].shop_in
           /\ Agrees(db, i)

\* C3: an add_coach with non-empty coach_no and shop appends exactly one row
\* with the given fields and leaves every earlier row as it was, also when
\* the coach_no is already present.
C3_AddCoach ==
    [][\A c \in CoachNoInputs \ {""}, ty \in CoachTypes, d \in AllDates,
          s \in ShopInputs \ {""} :
          AddCoach(c, ty, d, s) =>
             /\ Len(coaches') = Len(coaches) + 1
             /\ SubSeq(coaches', 1, Len(coaches)) = coaches
             /\ Last(coaches').coach_no = c
             /\ Last(coaches').coach_type = ty
             /\ Last(coaches').date_in = Str(d)
             /\ Last(coaches').current_shop = s]_vars

C3_Witness ==
    /\ msg.text = "Coach added!"
    /\ Len(coaches) >= 2
    /\ \E i \in 1..(Len(coaches) - 1) :
          /\ coaches[i].coach_no = Last(coaches).coach_no
          /\ coaches[i].current_shop # Last(coaches).current_shop

\* C4: an add_coach with empty coach_no or shop, and a record_movement with
\* empty shop_in or shop_out, change no row of either table and show a warning.
C4_ValidationFailure ==
    [][(\/ \E c \in CoachNoInputs, ty \in CoachTypes, d \in AllDates, s \in ShopInputs :
             (c = "" \/ s = "") /\ AddCoach(c, ty, d, s)
        \/ \E c \in CoachNoInputs, so \in ShopInputs, si \in ShopInputs,
              w \in WorkInputs, t1 \in Readings, t2 \in Readings :
             (si = "" \/ so = "") /\ UpdateMovement(c, so, si, w, t1, t2))
       => /\ coaches' = coaches
          /\ movements' = movements
          /\ msg'.kind = "warning"]_vars

C4_Witness ==
    /\ msg = Warning("Please fill in all details.")
    /\ coaches # <<>>
    /\ movements # <<>>

\* C5: a coach row is never deleted, its id, coach_no, coach_type and date_in
\* never change, its current_shop changes only in a successful
\* record_movement for its coach_no, and a record_movement leaves the rows
\* of every other coach_no as they were.
C5_CoachFrame ==
    [][/\ Len(coaches') >= Len(coaches)
       /\ \A i \in 1..Len(coaches) :
             /\ coaches'[i].id = coaches[i].id
             /\ coaches'[i].coach_no = coaches[i].coach_no
             /\ coaches'[i].coach_type = coaches[i].coach_type
             /\ coaches'[i].date_in = coaches[i].date_in
             /\ coaches'[i].current_shop # coaches[i].current_shop =>
                   RecordedMovement(coaches[i].coach_no)
       /\ \A c \in CoachNoInputs :
             RecordedMovement(c) =>
                \A i \in 1..Len(coaches) :
                   coaches[i].coach_no # c => coaches'[i] = coaches[i]]_vars

C5_Witness ==
    /\ msg.text = "Movement updated for Coach"
    /\ \E i \in 1..Len(coaches) :
          /\ coaches[i].coach_no # msg.coach_no
          /\ coaches[i].current_shop # Last(movements).shop_in

\* C6: no movement row is ever deleted or changed, and the movements table
\* grows only in a successful record_movement, by exactly one row.
C6_MovementsAppendOnly ==
    [][/\ IsPrefix(movements, movements')
       /\ movements' # movements =>
             /\ Len(movements') = Len(movements) + 1
             /\ \E c \in CoachNoInputs : RecordedMovement(c)
       /\ \A c \in CoachNoInputs :
             RecordedMovement(c) => Len(movements') = Len(movements) + 1]_vars

C6_Witness ==
    /\ msg.text = "Movement updated for Coach"
    /\ Len(movements) >= 2
    /\ movements[1] # [movements[2] EXCEPT !.id = 1]

\* C7 as claimed: each coach number appears at most once in the list that
\* populates the coach selection control.
C7_CoachListDistinct ==
    \A i \in 1..Len(coach_list), j \in 1..Len(coach_list) :
        coach_list[i] = coach_list[j] => i = j

\* C8: the report holds exactly the coach rows whose date_in lies between
\* start_date and end_date, both inclusive, and whose coach_type is the
\* selected one unless "All" is selected.
C8_FilterCoaches ==
    /\ \A i \in 1..Len(report), j \in 1..Len(report) : report[i] = report[j] => i = j
    /\ Range(report) \subseteq Range(coaches)
    /\ \A i \in 1..Len(coaches) :
          /\ \E d \in AllDates : coaches[i].date_in = Str(d)
          /\ \A d \in AllDates :
                coaches[i].date_in = Str(d) =>
                   (coaches[i] \in Range(report)
                      <=> /\ DateLE(start_date, d)
                          /\ DateLE(d, end_date)
                          /\ (coach_type_filter # "All" =>
                                 coaches[i].coach_type = coach_type_filter))

C8_Witness ==
    /\ coach_type_filter # "All"
    /\ start_date # end_date
    /\ report # <<>>
    /\ Len(report) < Len(coaches)
    /\ \E i \in 1..Len(report) : report[i].date_in = Str(end_date)
    /\ \E i \in 1..Len(coaches) :
          /\ coaches[i].coach_type = coach_type_filter
          /\ coaches[i] \notin Range(report)

\* C9: once the tables exist a run keeps their structure and drops no row, a
\* run whose handler writes nothing leaves the database as it was, and
\* running the schema statements again after any run changes nothing.
C9_EnsureSchemaIdempotent ==
    [][/\ TablesExist(db) =>
             /\ DOMAIN db' = DOMAIN db
             /\ \A t \in DOMAIN db :
                   /\ db'[t].columns = db[t].columns
                   /\ Len(db'[t].rows) >= Len(db[t].rows)
       /\ \A c \in CoachNoInputs : (TablesExist(db) /\ GetDetails(c)) => db' = db
       /\ EnsureSchema(db') = db']_vars

C9_Witness ==
    /\ details # <<>>
    /\ coaches # <<>>
    /\ EnsureSchema(db) = db

\* C10 as claimed: every movement row has time_in equal to time_out.
C10_SameInstant ==
    \A i \in 1..Len(movements) : movements[i].time_in = movements[i].time_out

=============================================================================
